---- MODULE Spec2Model ----
(***************************************************************************)
(* A model of the agent's tools (tools.ts), of DashAgent.browse            *)
(* (server.ts) and of the tool-call reconciliation pipeline.               *)
(*                                                                         *)
(* One invocation of a tool's execute function is a process whose position *)
(* is pc.  The web site, the search results and the agent's environment    *)
(* are fixed when the invocation starts; timeouts and failures of the page *)
(* primitives are decided by the environment when the primitive is called. *)
(***************************************************************************)
EXTENDS Naturals, Sequences, FiniteSets

\* ------------------------------------------------------------------ bounds
MaxElems == 2     \* top-level links/buttons on the landing page
MaxUrls == 2      \* URLs handed to one browse call
MaxCalls == 2     \* tool-call intents in the last message
MaxRuns == 2      \* invocations of findTeeTimes on one site, one after another
MaxMessages == 4  \* messages delivered to the transcript from outside

\* --------------------------------------------------------------- constants
Null == "<null>"              \* JavaScript null / undefined
NoDate == "<undefined>"       \* the optional date argument left out

CourseName == "Pebble Creek"
CourseUrl == "https://www.pebblecreek-golf.example/"
TeeTimesUrl == "https://pebblecreek-golf.example/tee-times"
BookUrl == "https://pebblecreek-golf.example/book-online"
InnerUrl == "https://pebblecreek-golf.example/reserve"
ScriptUrl == "https://pebblecreek-golf.example/booking"
RedirectUrl == "https://booking.example/landing"
DateUrl == "https://pebblecreek-golf.example/tee-times?date=2024-06-01"
ADate == "2024-06-01"

\* the results findTeeTimes returns for the expected "not found" conditions
NoContentMsg == "No content returned from browsing Google search results."
NoSiteMsg == "No golf course website URL found in search results."
NotFoundMsg == "No tee times link or button found on the landing page."

\* the errors the page primitives reject with
TimeoutError == "TimeoutError: waiting failed"
PageError == "Error: page failure"
NoBrowserError == "Error: Browser instance not found in agent environment"
NoAgentError == "Error: No agent with a browse method found"

NavigationError(detail) == "Error finding tee times: " \o detail
UnexpectedError(detail) == "Unexpected error: " \o detail

\* --------------------------------------------------------- the landing page
\* Visible texts a link, a button or a link nested in a button can carry.
LinkTexts == {"Book Tee Times", "Contact Us"}
ButtonTexts == {"Reserve", "Menu"}
InnerTexts == {"Tee Times", "here"}

\* /tee times|book(ing)? tee times|reserve/i on one piece of text
RegexTestText(t) == t \in {"Book Tee Times", "Tee Times", "Reserve"}

\* regex.test(el.textContent || ""): textContent is the element's own text
\* followed by the text of its descendants
RegexTest(textContent) ==
    \E i \in DOMAIN textContent : RegexTestText(textContent[i])

NoInner == [present |-> FALSE, text |-> "", href |-> ""]
Inners == [present : {TRUE}, text : InnerTexts, href : {InnerUrl}]

\* a top-level node of the page: <a href=..>text</a>, or
\* <button>text</button>, or <button>text<a href=..>text</a></button>
Links == [tag : {"a"}, text : LinkTexts, href : {"", TeeTimesUrl, BookUrl},
          inner : {NoInner}]
Buttons == [tag : {"button"}, text : ButtonTexts, href : {""},
            inner : {NoInner} \cup Inners]
Nodes == Links \cup Buttons

SeqsUpTo(S, n) == UNION {[1..k -> S] : k \in 0..n}
Doms == SeqsUpTo(Nodes, MaxElems)

\* the element a node is, as the page's scripts see it
ElementOf(n) ==
    [tag |-> n.tag,
     textContent |-> IF n.inner.present THEN <<n.text, n.inner.text>>
                     ELSE <<n.text>>,
     href |-> n.href,
     hasLink |-> n.inner.present,
     linkHref |-> n.inner.href]

InnerElementOf(n) ==
    [tag |-> "a", textContent |-> <<n.inner.text>>, href |-> n.inner.href,
     hasLink |-> FALSE, linkHref |-> ""]

\* all elements in document order: a button comes before the link inside it
RECURSIVE Flatten(_)
Flatten(d) ==
    IF d = <<>> THEN <<>>
    ELSE LET n == Head(d) IN
         <<ElementOf(n)>>
         \o (IF n.inner.present THEN <<InnerElementOf(n)>> ELSE <<>>)
         \o Flatten(Tail(d))

\* document.querySelectorAll(sel), sel given as the set of tags it selects
QuerySelectorAll(tags, d) ==
    LET IsTag(e) == e.tag \in tags IN SelectSeq(Flatten(d), IsTag)

\* the index of the first element whose text matches, 0 if none
FirstMatch(els) ==
    IF \E i \in DOMAIN els : RegexTest(els[i].textContent)
    THEN CHOOSE i \in DOMAIN els :
            /\ RegexTest(els[i].textContent)
            /\ \A j \in 1..(i - 1) : ~RegexTest(els[j].textContent)
    ELSE 0


\* ScanHref letting the last matching element decide instead of the first
ScanHrefLastMatch(tag, d) ==
    LET els == QuerySelectorAll({tag}, d)
        M == {i \in DOMAIN els : RegexTest(els[i].textContent)}
    IN  IF M = {} THEN Null
        ELSE LET i == CHOOSE m \in M : \A n \in M : n <= m IN
             IF els[i].tag = "a" THEN els[i].href
             ELSE IF els[i].hasLink THEN els[i].linkHref
             ELSE Null

\* ScanHref passing over matching elements that have no usable href
ScanHrefFirstUsable(tag, d) ==
    LET els == QuerySelectorAll({tag}, d)
        Usable(e) == /\ RegexTest(e.textContent)
                     /\ IF e.tag = "a" THEN e.href # "" ELSE e.hasLink
        M == {i \in DOMAIN els : Usable(els[i])}
    IN  IF M = {} THEN Null
        ELSE LET i == CHOOSE m \in M : \A n \in M : m <= n IN
             IF els[i].tag = "a" THEN els[i].href ELSE els[i].linkHref

\* the href the matcher run by page.evaluate returns for one category
\* (tools.ts 228-244): the first element whose text matches decides
ScanHref(tag, d) ==
    LET els == QuerySelectorAll({tag}, d)
        i == FirstMatch(els)
    IN  IF i = 0 THEN Null
        ELSE IF els[i].tag = "a" THEN els[i].href
        ELSE IF els[i].hasLink THEN els[i].linkHref
        ELSE Null

\* JavaScript truthiness of a string-or-null value
Truthy(v) == v # Null /\ v # "" /\ v # NoDate

linkSelectors == <<"a", "button">>

\* ------------------------------------------------------- the tee-times page
dateSelectors ==
    << "input[type=\"date\"]", "input[name*=\"date\"]", "input[id*=\"date\"]",
       ".datepicker", ".date-picker", "[aria-label*=\"date\"]" >>

\* a selector that names the input tag can only resolve to an input
InputOnly(k) == k \in {1, 2, 3}

\* what each date selector resolves to on the tee-times page
DatePages ==
    {p \in [DOMAIN dateSelectors -> {"absent", "input", "other"}] :
        \A k \in DOMAIN dateSelectors : InputOnly(k) => p[k] # "other"}

NoDateInputs == [k \in DOMAIN dateSelectors |-> "absent"]
\* scenario D: the page offers input[type="date"]#res-date
ScenarioDPage == [NoDateInputs EXCEPT ![1] = "input", ![3] = "input"]
\* a page whose only date field is <input type="date">
PlainDatePage == [NoDateInputs EXCEPT ![1] = "input"]

\* ------------------------------------------------------- the search results
ResultHtml == "<a href=\"/url?q=https://www.pebblecreek-golf.example/&amp;sa=U\">"
NoResultHtml == "<html><body>no results</body></html>"
BrowseErrorText == "Error browsing URL https://www.google.com/search: Error"

\* searchResults[0] of agent.browse(.., [googleSearchUrl], {returnHtml: true})
SearchHtml(outcome) ==
    CASE outcome = "link" -> ResultHtml
      [] outcome = "nolink" -> NoResultHtml
      [] outcome = "empty" -> ""
      [] outcome = "fail" -> BrowseErrorText

\* extractCourseUrl taking any content for a page of results
extractCourseUrlAnyHtml(html) == IF html # "" THEN CourseUrl ELSE Null

\* html.match(/<a href="\/url\?q=(https?:\/\/[^&"]+)/), group 1 or null
extractCourseUrl(html) == IF html = ResultHtml THEN CourseUrl ELSE Null

ToolNames == {"scheduleTask", "getScheduledTasks", "cancelScheduledTask",
              "browse", "findGolfCourseWebsite", "findTeeTimes"}

VARIABLES
    tool,               \* the tool whose execute function runs
    agentPresent,       \* agentContext.getStore() yields an agent
    browserPresent,     \* agent.getBrowserInstance() yields a browser
    search,             \* what the search fetch yields
    date,               \* the date argument
    dom,                \* the landing page's links and buttons
    scriptDest,         \* where the site's script navigates on a click ("" nowhere)
    siteRedirects,      \* the site redirects every navigation
    datePage,           \* what each date selector resolves to
    listenerNavigates,  \* the page's change listener navigates to the date's URL
    pc,                 \* position in execute
    page,               \* "null", "open" or "closed"
    url,                \* page.url()
    teeTimesHref,
    selIdx,             \* index into linkSelectors
    dateIdx,            \* index into dateSelectors
    dateSet,
    err,                \* the exception being handled
    result,             \* the value execute returned
    thrown,             \* the exception execute rejected with ("" none)
    closeCalls,         \* calls of page.close()
    usedAfterClose,     \* a page primitive was called on a closed page
    clicked,            \* indexes (in "a,button" order) of the elements clicked
    navWaits,           \* calls of page.waitForNavigation()
    gotos,              \* URLs handed to page.goto() after the landing page
    waitLog,            \* <<selector, outcome>> of each category wait
    scanLog,            \* selectors whose elements were scanned
    dateLog,            \* <<strategy, outcome>> of each date strategy tried
    failed,             \* the primitives and collaborators that failed
    urls,               \* the URLs handed to browse
    returnHtml,         \* browse's returnHtml option
    bi,                 \* browse's position in urls
    responses,          \* browse's responses array
    openBrowsers,       \* browsers launched and not closed
    when,               \* scheduleTask's trigger argument
    tasks,              \* the schedules the agent holds
    calls,              \* the calls made to the scheduling collaborator
    messages,           \* the conversation transcript
    processed,          \* the transcript the pipeline returns
    pidx,               \* the pipeline's position in the last message
    invocations,        \* <<tool, arguments>> of each execution function run
    run,                \* the number of the invocation of execute
    firstRun,           \* what the first invocation returned, and its log
    turnStart,          \* the transcript when the chat turn started
    modelRun,           \* the transcript streamText was last called with
    request,            \* the request handed to the worker's fetch
    response            \* the response fetch returned

envVars == <<tool, agentPresent, browserPresent, search, date, dom,
             scriptDest, siteRedirects, datePage, listenerNavigates>>
runVars == <<run, firstRun>>
chatVars == <<turnStart, modelRun>>
fetchVars == <<request, response>>
\* what one invocation of a tool's execute function never changes
siteVars == <<envVars, runVars, chatVars, fetchVars>>
procVars == <<pc, page, url, teeTimesHref, selIdx, dateIdx, dateSet, err,
              result, thrown>>
histVars == <<closeCalls, usedAfterClose, clicked, navWaits, gotos, waitLog,
              scanLog, dateLog, failed>>
browseVars == <<urls, returnHtml, bi, responses, openBrowsers>>
schedVars == <<when, tasks, calls>>
pipeVars == <<messages, processed, pidx, invocations>>
otherVars == <<browseVars, schedVars, pipeVars>>
teeVars == <<page, url, teeTimesHref, selIdx, dateIdx, dateSet, err,
             closeCalls, usedAfterClose, clicked, navWaits, gotos, waitLog,
             scanLog, dateLog>>
vars == <<siteVars, procVars, histVars, otherVars>>

\* where a navigation to u ends
Land(u) == IF siteRedirects THEN RedirectUrl ELSE u

\* where the page goes when element e is clicked: a link with an href is
\* followed, anything else is up to the site's script
ClickDest(e) ==
    IF e.tag = "a" /\ e.href # "" THEN Land(e.href) ELSE scriptDest

\* every page primitive is a use of the page
UsePage == usedAfterClose' = (usedAfterClose \/ page # "open")

RejectErrors == {PageError, TimeoutError}

\* ======================================================= findTeeTimes.execute
\* tools.ts 166-170: the agent is looked up before the try block
TeeStart ==
    /\ pc = "start" /\ tool = "findTeeTimes"
    /\ IF agentPresent
       THEN pc' = "search" /\ UNCHANGED thrown
       ELSE pc' = "done" /\ thrown' = NoAgentError
    /\ UNCHANGED <<siteVars, otherVars, histVars, page, url, teeTimesHref, selIdx,
                   dateIdx, dateSet, err, result>>

\* tools.ts 177-207 and 332-335: resolve the course's site from the search
TeeSearch ==
    /\ pc = "search"
    /\ LET htmlContent == SearchHtml(search)
           courseUrl == extractCourseUrl(htmlContent)
       IN  IF ~browserPresent
           THEN pc' = "done" /\ result' = UnexpectedError(NoBrowserError)
           ELSE IF htmlContent = ""
           THEN pc' = "done" /\ result' = NoContentMsg
           ELSE IF courseUrl = Null
           THEN pc' = "done" /\ result' = NoSiteMsg
           ELSE pc' = "newPage" /\ UNCHANGED result
    /\ UNCHANGED <<siteVars, otherVars, histVars, page, url, teeTimesHref, selIdx,
                   dateIdx, dateSet, err, thrown>>

\* a primitive rejects: control goes to the catch block of 323-325
Reject(primitive) ==
    /\ \E e \in RejectErrors : err' = e
    /\ failed' = failed \cup {primitive}
    /\ pc' = "catch"

\* tools.ts 211: page = await browser.newPage()
TeeNewPage ==
    /\ pc = "newPage"
    /\ \/ /\ page' = "open" /\ pc' = "goto"
          /\ UNCHANGED <<err, failed>>
       \/ Reject("newPage") /\ UNCHANGED page
    /\ UNCHANGED <<siteVars, otherVars, url, teeTimesHref, selIdx, dateIdx, dateSet,
                   result, thrown, closeCalls, usedAfterClose, clicked,
                   navWaits, gotos, waitLog, scanLog, dateLog>>

\* TeeGoto with the selector list shared between invocations: the first
\* invocation has consumed the links category
TeeGotoSharedSelectors ==
    /\ pc = "goto"
    /\ UsePage
    /\ url' = Land(CourseUrl) /\ pc' = "wait"
    /\ selIdx' = IF run = 1 THEN 1 ELSE Len(linkSelectors)
    /\ UNCHANGED <<siteVars, otherVars, page, teeTimesHref, dateIdx, dateSet, result,
                   thrown, closeCalls, clicked, navWaits, gotos, waitLog,
                   scanLog, dateLog, err, failed>>

\* tools.ts 213: page.goto(courseUrl)
TeeGoto ==
    /\ pc = "goto"
    /\ UsePage
    /\ \/ /\ url' = Land(CourseUrl) /\ pc' = "wait" /\ selIdx' = 1
          /\ UNCHANGED <<err, failed>>
       \/ Reject("goto") /\ UNCHANGED <<url, selIdx>>
    /\ UNCHANGED <<siteVars, otherVars, page, teeTimesHref, dateIdx, dateSet, result,
                   thrown, closeCalls, clicked, navWaits, gotos, waitLog,
                   scanLog, dateLog>>

\* tools.ts 219, 225, 248-251: on to the next category, or out of the loop
NextCategory ==
    IF selIdx < Len(linkSelectors)
    THEN selIdx' = selIdx + 1 /\ pc' = "wait"
    ELSE selIdx' = selIdx /\ pc' = "branch"

\* TeeWait without the inner try/catch: a timeout reaches the catch block
TeeWaitTimeoutFatal ==
    /\ pc = "wait"
    /\ UsePage
    /\ LET sel == linkSelectors[selIdx] IN
       \/ /\ QuerySelectorAll({sel}, dom) # <<>>
          /\ waitLog' = Append(waitLog, <<sel, "ok">>)
          /\ pc' = "scan"
          /\ UNCHANGED <<selIdx, err, failed>>
       \/ /\ waitLog' = Append(waitLog, <<sel, "timeout">>)
          /\ err' = TimeoutError
          /\ failed' = failed \cup {"waitForSelector"}
          /\ pc' = "catch"
          /\ UNCHANGED selIdx
    /\ UNCHANGED <<siteVars, otherVars, page, url, teeTimesHref, dateIdx, dateSet,
                   result, thrown, closeCalls, clicked, navWaits, gotos,
                   scanLog, dateLog>>

\* tools.ts 221-226: the bounded wait for an element of the category
TeeWait ==
    /\ pc = "wait"
    /\ UsePage
    /\ LET sel == linkSelectors[selIdx] IN
       \/ /\ QuerySelectorAll({sel}, dom) # <<>>
          /\ waitLog' = Append(waitLog, <<sel, "ok">>)
          /\ pc' = "scan" /\ UNCHANGED selIdx
       \/ /\ waitLog' = Append(waitLog, <<sel, "timeout">>)
          /\ NextCategory
    /\ UNCHANGED <<siteVars, otherVars, page, url, teeTimesHref, dateIdx, dateSet, err,
                   result, thrown, closeCalls, clicked, navWaits, gotos,
                   scanLog, dateLog, failed>>

\* TeeScan without the break of 248: the next category is scanned as well
TeeScanNoBreak ==
    /\ pc = "scan"
    /\ UsePage
    /\ teeTimesHref' = ScanHref(linkSelectors[selIdx], dom)
    /\ scanLog' = Append(scanLog, linkSelectors[selIdx])
    /\ NextCategory
    /\ UNCHANGED <<siteVars, otherVars, page, url, dateIdx, dateSet, result, thrown,
                   closeCalls, clicked, navWaits, gotos, waitLog, dateLog,
                   err, failed>>

\* tools.ts 228-248: run the matcher over the category's elements
TeeScan ==
    /\ pc = "scan"
    /\ UsePage
    /\ LET sel == linkSelectors[selIdx]
           href == ScanHref(sel, dom)
       IN  \/ /\ teeTimesHref' = href
              /\ scanLog' = Append(scanLog, sel)
              /\ IF Truthy(href)
                 THEN pc' = "branch" /\ UNCHANGED selIdx
                 ELSE NextCategory
              /\ UNCHANGED <<err, failed>>
           \/ /\ Reject("evaluate")
              /\ UNCHANGED <<teeTimesHref, scanLog, selIdx>>
    /\ UNCHANGED <<siteVars, otherVars, page, url, dateIdx, dateSet, result, thrown,
                   closeCalls, clicked, navWaits, gotos, waitLog, dateLog>>

\* TeeClick looking for a matching element among the buttons only
TeeClickButtonsOnly ==
    /\ pc = "branch" /\ ~Truthy(teeTimesHref)
    /\ UsePage
    /\ LET i == FirstMatch(QuerySelectorAll({"button"}, dom)) IN
           \/ /\ i # 0
              /\ clicked' = Append(clicked, i)
              /\ pc' = "waitNav"
              /\ UNCHANGED <<result, err, failed>>
           \/ /\ i = 0
              /\ result' = NotFoundMsg
              /\ pc' = "finally"
              /\ UNCHANGED <<clicked, err, failed>>
    /\ UNCHANGED <<siteVars, otherVars, page, url, teeTimesHref, selIdx, dateIdx,
                   dateSet, thrown, closeCalls, navWaits, gotos, waitLog,
                   scanLog, dateLog>>

\* tools.ts 251-267: no href, so click the first element whose text matches
TeeClick ==
    /\ pc = "branch" /\ ~Truthy(teeTimesHref)
    /\ UsePage
    /\ LET els == QuerySelectorAll({"a", "button"}, dom)
           i == FirstMatch(els)
       IN  \/ /\ i # 0
              /\ clicked' = Append(clicked, i)
              /\ pc' = "waitNav"
              /\ UNCHANGED <<result, err, failed>>
           \/ /\ i = 0
              /\ result' = NotFoundMsg
              /\ pc' = "finally"
              /\ UNCHANGED <<clicked, err, failed>>
           \/ /\ Reject("evaluate")
              /\ UNCHANGED <<clicked, result>>
    /\ UNCHANGED <<siteVars, otherVars, page, url, teeTimesHref, selIdx, dateIdx,
                   dateSet, thrown, closeCalls, navWaits, gotos, waitLog,
                   scanLog, dateLog>>

\* TeeWaitNav swallowing the timeout: execution goes on without a navigation
TeeWaitNavIgnoresTimeout ==
    /\ pc = "waitNav"
    /\ UsePage
    /\ navWaits' = navWaits + 1
    /\ LET els == QuerySelectorAll({"a", "button"}, dom)
           dest == ClickDest(els[clicked[Len(clicked)]])
       IN  \/ dest # "" /\ url' = dest
           \/ UNCHANGED url
    /\ pc' = "date"
    /\ UNCHANGED <<siteVars, otherVars, page, teeTimesHref, selIdx, dateIdx, dateSet,
                   err, result, thrown, closeCalls, clicked, gotos, waitLog,
                   scanLog, dateLog, failed>>

\* TeeWaitNav without a timeout: it returns only when a navigation happens
TeeWaitNavNoTimeout ==
    /\ pc = "waitNav"
    /\ UsePage
    /\ navWaits' = navWaits + 1
    /\ LET els == QuerySelectorAll({"a", "button"}, dom)
           dest == ClickDest(els[clicked[Len(clicked)]])
       IN  /\ dest # ""
           /\ url' = dest /\ pc' = "date"
    /\ UNCHANGED <<siteVars, otherVars, page, teeTimesHref, selIdx, dateIdx, dateSet,
                   err, result, thrown, closeCalls, clicked, gotos, waitLog,
                   scanLog, dateLog, failed>>

\* tools.ts 269: wait for the navigation the click started
TeeWaitNav ==
    /\ pc = "waitNav"
    /\ UsePage
    /\ navWaits' = navWaits + 1
    /\ LET els == QuerySelectorAll({"a", "button"}, dom)
           dest == ClickDest(els[clicked[Len(clicked)]])
       IN  \/ /\ dest # ""
              /\ url' = dest /\ pc' = "date"
              /\ UNCHANGED <<err, failed>>
           \/ /\ err' = TimeoutError
              /\ failed' = failed \cup {"waitForNavigation"}
              /\ pc' = "catch"
              /\ UNCHANGED url
    /\ UNCHANGED <<siteVars, otherVars, page, teeTimesHref, selIdx, dateIdx, dateSet,
                   result, thrown, closeCalls, clicked, gotos, waitLog,
                   scanLog, dateLog>>

\* tools.ts 271-275: an href was found, navigate to it
TeeGotoHref ==
    /\ pc = "branch" /\ Truthy(teeTimesHref)
    /\ UsePage
    /\ gotos' = Append(gotos, teeTimesHref)
    /\ \/ /\ url' = Land(teeTimesHref) /\ pc' = "date"
          /\ UNCHANGED <<err, failed>>
       \/ Reject("goto") /\ UNCHANGED url
    /\ UNCHANGED <<siteVars, otherVars, page, teeTimesHref, selIdx, dateIdx, dateSet,
                   result, thrown, closeCalls, clicked, navWaits, waitLog,
                   scanLog, dateLog>>

\* tools.ts 277-288: date priming only when a date was supplied
TeeDate ==
    /\ pc = "date"
    /\ IF Truthy(date)
       THEN pc' = "dateWait" /\ dateIdx' = 1 /\ dateSet' = FALSE
       ELSE pc' = "report" /\ UNCHANGED <<dateIdx, dateSet>>
    /\ UNCHANGED <<siteVars, otherVars, histVars, page, url, teeTimesHref, selIdx, err,
                   result, thrown>>

\* NextStrategy going back to the entry-point scan when no strategy is left
NextStrategyRescans ==
    IF dateIdx < Len(dateSelectors)
    THEN dateIdx' = dateIdx + 1 /\ pc' = "dateWait"
    ELSE dateIdx' = dateIdx /\ pc' = "wait"

\* tools.ts 289, 304-309, 311: the strategy failed, on to the next one
NextStrategy ==
    IF dateIdx < Len(dateSelectors)
    THEN dateIdx' = dateIdx + 1 /\ pc' = "dateWait"
    ELSE dateIdx' = dateIdx /\ pc' = "settle"

\* TeeDateWait without the try/catch of 290-308: a timeout ends the run
TeeDateWaitTimeoutFatal ==
    /\ pc = "dateWait"
    /\ UsePage
    /\ \/ /\ datePage[dateIdx] # "absent"
          /\ pc' = "dateTag"
          /\ UNCHANGED <<dateLog, err, failed>>
       \/ /\ dateLog' = Append(dateLog, <<dateIdx, "timeout">>)
          /\ err' = TimeoutError
          /\ failed' = failed \cup {"waitForSelector"}
          /\ pc' = "catch"
    /\ UNCHANGED <<siteVars, otherVars, page, url, teeTimesHref, selIdx, dateIdx,
                   dateSet, result, thrown, closeCalls, clicked, navWaits,
                   gotos, waitLog, scanLog>>

\* tools.ts 292: the bounded wait for the strategy's selector
TeeDateWait ==
    /\ pc = "dateWait"
    /\ UsePage
    /\ \/ /\ datePage[dateIdx] # "absent"
          /\ pc' = "dateTag"
          /\ UNCHANGED <<dateIdx, dateLog>>
       \/ /\ dateLog' = Append(dateLog, <<dateIdx, "timeout">>)
          /\ NextStrategy
    /\ UNCHANGED <<siteVars, otherVars, page, url, teeTimesHref, selIdx, dateSet, err,
                   result, thrown, closeCalls, clicked, navWaits, gotos,
                   waitLog, scanLog, failed>>

\* tools.ts 293-294, 303-304: is the resolved element an input?
TeeDateTag ==
    /\ pc = "dateTag"
    /\ UsePage
    /\ \/ /\ datePage[dateIdx] = "input"
          /\ pc' = "dateSet"
          /\ UNCHANGED <<dateIdx, dateLog>>
       \/ /\ datePage[dateIdx] # "input"
          /\ dateLog' = Append(dateLog, <<dateIdx, "notInput">>)
          /\ NextStrategy
       \/ /\ dateLog' = Append(dateLog, <<dateIdx, "error">>)
          /\ NextStrategy
    /\ UNCHANGED <<siteVars, otherVars, page, url, teeTimesHref, selIdx, dateSet, err,
                   result, thrown, closeCalls, clicked, navWaits, gotos,
                   waitLog, scanLog, failed>>

\* TeeDateSet without the break of 302: later strategies are tried as well
TeeDateSetNoBreak ==
    /\ pc = "dateSet"
    /\ UsePage
    /\ \/ /\ dateSet' = TRUE
          /\ dateLog' = Append(dateLog, <<dateIdx, "set">>)
       \/ /\ dateLog' = Append(dateLog, <<dateIdx, "error">>)
          /\ UNCHANGED dateSet
    /\ NextStrategy
    /\ UNCHANGED <<siteVars, otherVars, page, url, teeTimesHref, selIdx, err, result,
                   thrown, closeCalls, clicked, navWaits, gotos, waitLog,
                   scanLog, failed>>

\* tools.ts 295-302: set the value, dispatch input and change, stop trying
TeeDateSet ==
    /\ pc = "dateSet"
    /\ UsePage
    /\ \/ /\ dateSet' = TRUE
          /\ dateLog' = Append(dateLog, <<dateIdx, "set">>)
          /\ pc' = "settle"
          /\ UNCHANGED dateIdx
       \/ /\ dateLog' = Append(dateLog, <<dateIdx, "error">>)
          /\ NextStrategy
          /\ UNCHANGED dateSet
    /\ UNCHANGED <<siteVars, otherVars, page, url, teeTimesHref, selIdx, err, result,
                   thrown, closeCalls, clicked, navWaits, gotos, waitLog,
                   scanLog, failed>>

\* tools.ts 311-316: after a set, pause while the page's listeners react
TeeSettle ==
    /\ pc = "settle"
    /\ url' = IF dateSet /\ listenerNavigates THEN DateUrl ELSE url
    /\ pc' = "report"
    /\ UNCHANGED <<siteVars, otherVars, histVars, page, teeTimesHref, selIdx, dateIdx,
                   dateSet, err, result, thrown>>

\* tools.ts 319-321: return page.url()
TeeReport ==
    /\ pc = "report"
    /\ UsePage
    /\ result' = url
    /\ pc' = "finally"
    /\ UNCHANGED <<siteVars, otherVars, page, url, teeTimesHref, selIdx, dateIdx,
                   dateSet, err, thrown, closeCalls, clicked, navWaits,
                   gotos, waitLog, scanLog, dateLog, failed>>

\* TeeCatch without the catch block of 323-325: the error leaves execute
TeeCatchRethrows ==
    /\ pc = "catch"
    /\ thrown' = err
    /\ pc' = "finally"
    /\ UNCHANGED <<siteVars, otherVars, histVars, page, url, teeTimesHref, selIdx,
                   dateIdx, dateSet, err, result>>

\* tools.ts 323-325: any other error becomes a result string
TeeCatch ==
    /\ pc = "catch"
    /\ result' = NavigationError(err)
    /\ pc' = "finally"
    /\ UNCHANGED <<siteVars, otherVars, histVars, page, url, teeTimesHref, selIdx,
                   dateIdx, dateSet, err, thrown>>

\* TeeFinally without the outer try/catch of 177/332: a close that rejects
\* rejects execute
TeeFinallyCloseEscapes ==
    /\ pc = "finally"
    /\ pc' = "done"
    /\ IF page # "null"
       THEN /\ UsePage
            /\ closeCalls' = closeCalls + 1
            /\ \/ /\ page' = "closed"
                  /\ UNCHANGED <<result, failed, thrown>>
               \/ /\ page' \in {"open", "closed"}
                  /\ thrown' = PageError
                  /\ failed' = failed \cup {"close"}
                  /\ UNCHANGED result
       ELSE UNCHANGED <<page, result, closeCalls, usedAfterClose, failed,
                        thrown>>
    /\ UNCHANGED <<siteVars, otherVars, url, teeTimesHref, selIdx, dateIdx,
                   dateSet, err, clicked, navWaits, gotos, waitLog, scanLog,
                   dateLog>>

\* TeeFinally with the close moved into the try block: an error skips it
TeeFinallyLeaksOnError ==
    /\ pc = "finally"
    /\ pc' = "done"
    /\ IF page # "null" /\ err = ""
       THEN /\ UsePage
            /\ closeCalls' = closeCalls + 1
            /\ page' = "closed"
            /\ UNCHANGED <<result, failed>>
       ELSE UNCHANGED <<page, result, closeCalls, usedAfterClose, failed>>
    /\ UNCHANGED <<siteVars, otherVars, url, teeTimesHref, selIdx, dateIdx, dateSet,
                   err, thrown, clicked, navWaits, gotos, waitLog, scanLog,
                   dateLog>>

\* tools.ts 326-335: close the page if one was opened; a close that rejects
\* replaces the result through the outer catch
TeeFinally ==
    /\ pc = "finally"
    /\ pc' = "done"
    /\ IF page # "null"
       THEN /\ UsePage
            /\ closeCalls' = closeCalls + 1
            /\ \/ /\ page' = "closed"
                  /\ UNCHANGED <<result, failed>>
               \/ /\ page' \in {"open", "closed"}
                  /\ result' = UnexpectedError(PageError)
                  /\ failed' = failed \cup {"close"}
       ELSE UNCHANGED <<page, result, closeCalls, usedAfterClose, failed>>
    /\ UNCHANGED <<siteVars, otherVars, url, teeTimesHref, selIdx, dateIdx, dateSet,
                   err, thrown, clicked, navWaits, gotos, waitLog, scanLog,
                   dateLog>>

\* ============================================================ DashAgent.browse
Urls == {"https://a.example/", "https://b.example/"}
ResponsesValue == "<responses>"     \* stands for the responses array
PageHtml(u) == "<html>" \o u \o "</html>"
PageLinks(u) == "links of " \o u
BrowsingError(u, e) == "Error browsing URL " \o u \o ": " \o e
ToolBrowseError(detail) == "Error during browsing: " \o detail
MyBrowserError == "Error: Browser instance (MYBROWSER) not found in agent environment"

\* tools.ts 351-360: the browse tool, up to its call of agent.browse
BrowseToolStart ==
    /\ pc = "start" /\ tool = "browse"
    /\ IF ~agentPresent
       THEN pc' = "done" /\ thrown' = NoAgentError /\ UNCHANGED <<result, bi>>
       ELSE IF ~browserPresent
       THEN /\ pc' = "done" /\ result' = ToolBrowseError(MyBrowserError)
            /\ UNCHANGED <<thrown, bi>>
       ELSE pc' = "bLaunch" /\ bi' = 1 /\ UNCHANGED <<thrown, result>>
    /\ UNCHANGED <<siteVars, teeVars, failed, urls, returnHtml, responses,
                   openBrowsers, schedVars, pipeVars>>

\* server.ts 126-129: the catch block of the loop body; the browser that was
\* launched for the URL is not closed there
BrowseCatch(primitive) ==
    /\ \E e \in RejectErrors :
          responses' = Append(responses, BrowsingError(urls[bi], e))
    /\ failed' = failed \cup {primitive}
    /\ bi' = bi + 1
    /\ pc' = "bLaunch"

\* server.ts 111-113: puppeteer.launch for the next URL
BrowseLaunch ==
    /\ pc = "bLaunch" /\ bi <= Len(urls)
    /\ \/ /\ openBrowsers' = openBrowsers + 1
          /\ pc' = "bNewPage"
          /\ UNCHANGED <<responses, failed, bi>>
       \/ BrowseCatch("launch") /\ UNCHANGED openBrowsers
    /\ UNCHANGED <<siteVars, teeVars, result, thrown, urls, returnHtml,
                   schedVars, pipeVars>>

\* server.ts 114-116: newPage, goto, waitForSelector("body")
BrowseStep(at, primitive, next) ==
    /\ pc = at
    /\ \/ pc' = next /\ UNCHANGED <<responses, failed, bi>>
       \/ BrowseCatch(primitive)
    /\ UNCHANGED <<siteVars, teeVars, result, thrown, urls, returnHtml,
                   openBrowsers, schedVars, pipeVars>>

BrowseNewPage == BrowseStep("bNewPage", "newPage", "bGoto")
BrowseGoto == BrowseStep("bGoto", "goto", "bWaitBody")
BrowseWaitBody == BrowseStep("bWaitBody", "waitForSelector", "bExtract")

\* server.ts 117-124: push the page's html or its links
BrowseExtract ==
    /\ pc = "bExtract"
    /\ \/ /\ responses' = Append(responses, IF returnHtml THEN PageHtml(urls[bi])
                                            ELSE PageLinks(urls[bi]))
          /\ pc' = "bClose"
          /\ UNCHANGED <<failed, bi>>
       \/ BrowseCatch("evaluate")
    /\ UNCHANGED <<siteVars, teeVars, result, thrown, urls, returnHtml,
                   openBrowsers, schedVars, pipeVars>>

\* server.ts 125: browser.close(), the last statement of the try block
BrowseClose ==
    /\ pc = "bClose"
    /\ \/ /\ openBrowsers' = openBrowsers - 1
          /\ bi' = bi + 1 /\ pc' = "bLaunch"
          /\ UNCHANGED <<responses, failed>>
       \/ /\ BrowseCatch("close")
          /\ openBrowsers' \in {openBrowsers, openBrowsers - 1}
    /\ UNCHANGED <<siteVars, teeVars, result, thrown, urls, returnHtml,
                   schedVars, pipeVars>>

\* server.ts 131 and tools.ts 361-362: the loop is over, the array is returned
BrowseReturn ==
    /\ pc = "bLaunch" /\ bi > Len(urls)
    /\ result' = ResponsesValue
    /\ pc' = "done"
    /\ UNCHANGED <<siteVars, teeVars, failed, thrown, browseVars, schedVars,
                   pipeVars>>

\* ======================================================== the scheduling tools
NoAgentFound == "Error: No agent found"
SchedulerError == "Error: scheduler failure"
TaskId == "task-1"
TasksValue == "<tasks>"             \* stands for the array of schedules
ScheduleTypes == {"scheduled", "delayed", "cron", "no-schedule"}
\* the trigger the schema admits: a type and that type's value
Whens ==
    { [type |-> "scheduled", value |-> "2025-06-01T09:00:00.000Z"],
      [type |-> "delayed", value |-> "60"],
      [type |-> "cron", value |-> "0 9 * * *"],
      [type |-> "no-schedule", value |-> Null] }
Description == "water the greens"

\* tools.ts 44-72.  agent.schedule is called without await: what it throws
\* synchronously is caught, a promise it rejects later is not observed.
ScheduleTask ==
    /\ pc = "start" /\ tool = "scheduleTask"
    /\ pc' = "done"
    /\ IF ~agentPresent
       THEN thrown' = NoAgentFound /\ UNCHANGED <<result, calls, tasks, failed>>
       ELSE IF when.type = "no-schedule"
       THEN /\ result' = "Not a valid schedule input"
            /\ UNCHANGED <<thrown, calls, tasks, failed>>
       ELSE /\ calls' = Append(calls, <<"schedule", when.value, "executeTask",
                                        Description>>)
            /\ UNCHANGED thrown
            /\ \/ /\ tasks' = Append(tasks, when.value)
                  /\ result' = "Task scheduled for type \"" \o when.type
                                   \o "\" : " \o when.value
                  /\ UNCHANGED failed
               \/ /\ failed' = failed \cup {"schedule rejected"}
                  /\ result' = "Task scheduled for type \"" \o when.type
                                   \o "\" : " \o when.value
                  /\ UNCHANGED tasks
               \/ /\ failed' = failed \cup {"schedule threw"}
                  /\ result' = "Error scheduling task: " \o SchedulerError
                  /\ UNCHANGED tasks
    /\ UNCHANGED <<siteVars, teeVars, browseVars, when, pipeVars>>

\* tools.ts 81-96
GetScheduledTasks ==
    /\ pc = "start" /\ tool = "getScheduledTasks"
    /\ pc' = "done"
    /\ IF ~agentPresent
       THEN thrown' = NoAgentFound /\ UNCHANGED <<result, calls, failed>>
       ELSE /\ calls' = Append(calls, <<"getSchedules">>)
            /\ UNCHANGED thrown
            /\ \/ /\ result' = IF tasks = <<>> THEN "No scheduled tasks found."
                               ELSE TasksValue
                  /\ UNCHANGED failed
               \/ /\ failed' = failed \cup {"getSchedules"}
                  /\ result' = "Error listing scheduled tasks: " \o SchedulerError
    /\ UNCHANGED <<siteVars, teeVars, browseVars, when, tasks, pipeVars>>

\* tools.ts 108-120
CancelScheduledTask ==
    /\ pc = "start" /\ tool = "cancelScheduledTask"
    /\ pc' = "done"
    /\ IF ~agentPresent
       THEN thrown' = NoAgentFound /\ UNCHANGED <<result, calls, tasks, failed>>
       ELSE /\ calls' = Append(calls, <<"cancelSchedule", TaskId>>)
            /\ UNCHANGED thrown
            /\ \/ /\ tasks' = SelectSeq(tasks, LAMBDA t : t # TaskId)
                  /\ result' = "Task " \o TaskId \o " has been successfully canceled."
                  /\ UNCHANGED failed
               \/ /\ failed' = failed \cup {"cancelSchedule"}
                  /\ result' = "Error canceling task " \o TaskId \o ": "
                                   \o SchedulerError
                  /\ UNCHANGED tasks
    /\ UNCHANGED <<siteVars, teeVars, browseVars, when, pipeVars>>

\* ====================================================== findGolfCourseWebsite
GolfError(detail) == "Error finding golf course website: " \o detail

\* FindGolfCourseWebsite reporting a failed fetch of the results as an error
FindGolfCourseWebsiteFetchFails ==
    /\ pc = "start" /\ tool = "findGolfCourseWebsite"
    /\ pc' = "done"
    /\ LET htmlContent == SearchHtml(search)
           urlMatch == extractCourseUrl(htmlContent)
       IN  IF ~agentPresent
           THEN thrown' = NoAgentError /\ UNCHANGED result
           ELSE /\ UNCHANGED thrown
                /\ result' = IF ~browserPresent THEN GolfError(MyBrowserError)
                             ELSE IF htmlContent = "" THEN NoContentMsg
                             ELSE IF htmlContent = BrowseErrorText
                             THEN GolfError(BrowseErrorText)
                             ELSE IF urlMatch # Null THEN urlMatch
                             ELSE NoSiteMsg
    /\ UNCHANGED <<siteVars, teeVars, failed, otherVars>>

\* tools.ts 126-157
FindGolfCourseWebsite ==
    /\ pc = "start" /\ tool = "findGolfCourseWebsite"
    /\ pc' = "done"
    /\ LET htmlContent == SearchHtml(search)
           urlMatch == extractCourseUrl(htmlContent)
       IN  IF ~agentPresent
           THEN thrown' = NoAgentError /\ UNCHANGED result
           ELSE /\ UNCHANGED thrown
                /\ result' = IF ~browserPresent THEN GolfError(MyBrowserError)
                             ELSE IF htmlContent = "" THEN NoContentMsg
                             ELSE IF urlMatch # Null THEN urlMatch
                             ELSE NoSiteMsg
    /\ UNCHANGED <<siteVars, teeVars, failed, otherVars>>

\* ======================================================= the execution pipeline
\* tools.ts 342-371: the tools handed to the model
tools == ToolNames \cup {"getWeatherInformation", "getLocalTime"}
\* tools.ts 21-25: the one tool defined without an execute function
HasExecute(name) == name \in tools \ {"getWeatherInformation"}
\* tools.ts 378-383: the names the execution table is keyed by
executions == {"getWeatherInformation"}

\* executions.getWeatherInformation ignoring its argument
getWeatherInformationAnyCity(city) == "The weather in Paris is sunny"

\* tools.ts 379-382
getWeatherInformation(city) == "The weather in " \o city \o " is sunny"

Cities == {"Paris", "Oslo"}
DeniedResult == "User denied execution"
EarlierResult == "10am"            \* a result attached before this turn

\* the tool-call intents a message can carry
IntentOf(name, city, state) ==
    [toolName |-> name, args |-> city, state |-> state,
     result |-> IF state = "Completed" THEN EarlierResult ELSE Null]
Intents ==
    {IntentOf("getWeatherInformation", c, st) :
        c \in Cities, st \in {"Pending", "Approved", "Denied", "Completed"}}
    \cup {IntentOf("getLocalTime", c, st) :
        c \in Cities, st \in {"Pending", "Completed"}}

UserMessage == [role |-> "user", parts |-> <<>>]
AssistantMessage(parts) == [role |-> "assistant", parts |-> parts]

\* the pipeline's treatment of one intent of the last message (reconcile)
Reconciled(intent) ==
    IF intent.result # Null \/ HasExecute(intent.toolName)
       \/ intent.toolName \notin executions
    THEN intent
    ELSE IF intent.state = "Denied"
    THEN [intent EXCEPT !.result = DeniedResult, !.state = "Completed"]
    ELSE IF intent.state = "Approved"
    THEN [intent EXCEPT !.result = getWeatherInformation(intent.args),
                        !.state = "Completed"]
    ELSE intent

\* does the pipeline run the execution function for this intent?
Invokes(intent) ==
    /\ intent.result = Null /\ ~HasExecute(intent.toolName)
    /\ intent.toolName \in executions
    /\ intent.state = "Approved"

\* server.ts 45-50: processToolCalls, one intent of the last message per step
PipeIntent ==
    /\ pc = "reconcile" /\ pidx <= Len(processed[Len(processed)].parts)
    /\ LET last == Len(processed)
           intent == processed[last].parts[pidx]
       IN  /\ processed' = [processed EXCEPT
                              ![last].parts[pidx] = Reconciled(intent)]
           /\ invocations' = IF Invokes(intent)
                             THEN Append(invocations,
                                         <<pidx, intent.toolName, intent.args>>)
                             ELSE invocations
    /\ pidx' = pidx + 1
    /\ UNCHANGED <<siteVars, procVars, histVars, browseVars, schedVars,
                   messages>>

\* server.ts 45-50: processToolCalls returns the processed messages
PipeFinish ==
    /\ pc = "reconcile" /\ pidx > Len(processed[Len(processed)].parts)
    /\ pc' = "reconciled"
    /\ UNCHANGED <<siteVars, teeVars, result, thrown, failed, otherVars>>

\* ------------------------------------------------------------- fixtures
ALink(text, href) == [tag |-> "a", text |-> text, href |-> href, inner |-> NoInner]
AButton(text) == [tag |-> "button", text |-> text, href |-> "", inner |-> NoInner]
\* scenario A: an anchor "Book Tee Times" with an href
ScenarioADom == <<ALink("Contact Us", BookUrl), ALink("Book Tee Times", TeeTimesUrl)>>
\* scenario B: only a button "Reserve" with no nested link
ScenarioBDom == <<AButton("Reserve")>>

\* the state before execute runs
InitProc ==
    /\ page = "null" /\ url = "about:blank"
    /\ teeTimesHref = Null /\ selIdx = 1 /\ dateIdx = 1 /\ dateSet = FALSE
    /\ err = "" /\ result = Null /\ thrown = ""
    /\ closeCalls = 0 /\ usedAfterClose = FALSE /\ clicked = <<>>
    /\ navWaits = 0 /\ gotos = <<>> /\ waitLog = <<>> /\ scanLog = <<>>
    /\ dateLog = <<>> /\ failed = {}
    /\ bi = 1 /\ responses = <<>> /\ openBrowsers = 0
    /\ calls = <<>> /\ pidx = 1 /\ invocations = <<>>

\* the parts of the state a tool does not read
NoSite ==
    /\ dom = ScenarioADom /\ scriptDest = ScriptUrl /\ siteRedirects = FALSE
    /\ date = NoDate /\ datePage = NoDateInputs /\ listenerNavigates = FALSE
NoBrowseArgs == urls = <<>> /\ returnHtml = FALSE
NoSchedule == when \in {w \in Whens : w.type = "no-schedule"} /\ tasks = <<>>
NoTranscript == messages = <<>> /\ processed = <<>>
NoRun == [result |-> Null, thrown |-> "", waitLog |-> <<>>, failed |-> {},
          err |-> ""]
NoEarlierRun == run = 1 /\ firstRun = NoRun
NoChat == turnStart = <<>> /\ modelRun = <<>>
NoRequest == [method |-> "", path |-> "", origin |-> Null]
NoResponse == [status |-> 0, headers |-> {}]
NoFetch == request = NoRequest /\ response = NoResponse

\* every landing page, with and without a date
InitLanding ==
    /\ agentPresent = TRUE /\ browserPresent = TRUE /\ search = "link"
    /\ dom \in Doms
    /\ \/ /\ date = NoDate /\ datePage = NoDateInputs
          /\ listenerNavigates = FALSE
          /\ scriptDest \in {"", ScriptUrl} /\ siteRedirects \in BOOLEAN
          /\ siteRedirects => scriptDest = ScriptUrl
       \/ /\ date = ADate /\ datePage = PlainDatePage
          /\ listenerNavigates \in BOOLEAN
          /\ scriptDest = ScriptUrl /\ siteRedirects = FALSE

\* every tee-times page a date can be set on
InitDatePage ==
    /\ agentPresent = TRUE /\ browserPresent = TRUE /\ search = "link"
    /\ dom = ScenarioADom
    /\ scriptDest = ScriptUrl
    /\ siteRedirects = FALSE
    /\ date = ADate /\ datePage \in DatePages /\ listenerNavigates \in BOOLEAN

\* every agent environment and search outcome
InitEnvironment ==
    /\ agentPresent \in BOOLEAN /\ browserPresent \in BOOLEAN
    /\ search \in {"link", "nolink", "empty", "fail"}
    /\ dom = ScenarioADom
    /\ scriptDest = ScriptUrl
    /\ siteRedirects = FALSE
    /\ date \in {NoDate, "", ADate}
    /\ datePage = ScenarioDPage /\ listenerNavigates = FALSE

InitFindTeeTimes ==
    /\ tool = "findTeeTimes"
    /\ InitLanding \/ InitDatePage \/ InitEnvironment
    /\ NoBrowseArgs /\ NoSchedule

InitFindGolfCourseWebsite ==
    /\ tool = "findGolfCourseWebsite"
    /\ agentPresent \in BOOLEAN /\ browserPresent \in BOOLEAN
    /\ search \in {"link", "nolink", "empty", "fail"}
    /\ NoSite /\ NoBrowseArgs /\ NoSchedule

InitBrowse ==
    /\ tool = "browse"
    /\ agentPresent \in BOOLEAN /\ browserPresent \in BOOLEAN
    /\ urls \in SeqsUpTo(Urls, MaxUrls) /\ returnHtml \in BOOLEAN
    /\ search = "link" /\ NoSite /\ NoSchedule

InitScheduling ==
    /\ tool \in {"scheduleTask", "getScheduledTasks", "cancelScheduledTask"}
    /\ agentPresent \in BOOLEAN /\ browserPresent = TRUE
    /\ when \in Whens /\ tasks \in {<<>>, <<TaskId>>}
    /\ search = "link" /\ NoSite /\ NoBrowseArgs

\* a chat turn whose last message carries tool-call intents
InitPipeline ==
    /\ tool = "none"
    /\ agentPresent = TRUE /\ browserPresent = TRUE /\ search = "link"
    /\ NoSite /\ NoBrowseArgs /\ NoSchedule
    /\ \E parts \in SeqsUpTo(Intents, MaxCalls) :
          messages = <<UserMessage, AssistantMessage(parts)>>
    /\ processed = messages
    /\ NoEarlierRun /\ NoChat /\ NoFetch
    /\ InitProc
    /\ pc = "reconcile"

NextPipeline == PipeIntent \/ PipeFinish

SpecPipeline == InitPipeline /\ [][NextPipeline]_vars

\* one invocation of one tool's execute function
Init ==
    /\ \/ InitFindTeeTimes \/ InitFindGolfCourseWebsite \/ InitBrowse
       \/ InitScheduling
    /\ NoTranscript /\ NoEarlierRun /\ NoChat /\ NoFetch
    /\ InitProc
    /\ pc = "start"

Next ==
    \/ TeeStart \/ TeeSearch \/ TeeNewPage \/ TeeGoto \/ TeeWait \/ TeeScan
    \/ TeeClick \/ TeeWaitNav \/ TeeGotoHref \/ TeeDate \/ TeeDateWait
    \/ TeeDateTag \/ TeeDateSet \/ TeeSettle \/ TeeReport \/ TeeCatch
    \/ TeeFinally
    \/ BrowseToolStart \/ BrowseLaunch \/ BrowseNewPage \/ BrowseGoto
    \/ BrowseWaitBody \/ BrowseExtract \/ BrowseClose \/ BrowseReturn
    \/ ScheduleTask \/ GetScheduledTasks \/ CancelScheduledTask
    \/ FindGolfCourseWebsite

Spec == Init /\ [][Next]_vars

\* ================================================================ properties
IsErrorResult(r) ==
    r \in {NavigationError(e) : e \in RejectErrors}
          \cup {UnexpectedError(PageError), UnexpectedError(NoBrowserError)}

\* the primitives whose rejection the catch block of 323-325 handles
CaughtPrimitives == {"newPage", "goto", "evaluate", "waitForNavigation"}

\* C1: on every path of findTeeTimes on which a page was opened, page.close()
\* is called exactly once before execute returns (and the page is closed
\* unless close itself rejected), and no page primitive is called on the page
\* after it was closed.
C1_PageClosedExactlyOnce ==
    /\ closeCalls <= 1
    /\ ~usedAfterClose
    /\ page = "closed" => pc = "done"
    /\ (pc = "done" /\ page # "null") =>
          /\ closeCalls = 1
          /\ "close" \notin failed => page = "closed"
    /\ page = "null" => closeCalls = 0

\* the page is closed after an error in the middle of the flow
C1_Witness ==
    /\ pc = "done" /\ page = "closed" /\ closeCalls = 1
    /\ "waitForNavigation" \in failed

AllEls == QuerySelectorAll({"a", "button"}, dom)
LinkEls == QuerySelectorAll({"a"}, dom)
FirstLinkHref == LinkEls[FirstMatch(LinkEls)].href
NoWaitTimedOut == \A i \in DOMAIN waitLog : waitLog[i][2] = "ok"
AfterBranch == {"waitNav", "date", "dateWait", "dateTag", "dateSet", "settle",
                "report"}

\* what the invocation without a date returns after the same navigation
NoDateUrl ==
    IF gotos # <<>> THEN Land(gotos[1])
    ELSE IF clicked # <<>> THEN ClickDest(AllEls[clicked[1]])
    ELSE Null

\* C5 as stated: whenever the landing page contains a link whose text matches,
\* findTeeTimes navigates directly to the href of the first such link, never
\* clicks, and returns that href (here even granting that no primitive
\* rejects, no wait times out, the site does not redirect and no date is set).
C5_Original ==
    (/\ pc = "done" /\ waitLog # <<>> /\ FirstMatch(LinkEls) # 0
     /\ failed = {} /\ NoWaitTimedOut /\ ~siteRedirects /\ ~Truthy(date))
    => /\ gotos = <<FirstLinkHref>>
       /\ clicked = <<>>
       /\ result = FirstLinkHref

\* C5 amended: whenever the links were scanned and the first link whose text
\* matches carries a non-empty href, that href is obtained and navigated to
\* directly, nothing is clicked, and when no primitive rejects the result is
\* the URL the page then reports: the href, unless the site redirects the
\* navigation or the page's change listener navigates after a date was set.
C5_DirectNavigation ==
    (/\ scanLog # <<>> /\ scanLog[1] = "a"
     /\ FirstMatch(LinkEls) # 0 /\ FirstLinkHref # "")
    => /\ teeTimesHref = FirstLinkHref
       /\ clicked = <<>> /\ navWaits = 0
       /\ pc # "branch" => gotos = <<FirstLinkHref>>
       /\ (pc = "done" /\ failed = {}) =>
             result = IF dateSet /\ listenerNavigates THEN DateUrl
                      ELSE Land(FirstLinkHref)

\* two matching links: the first one's href is returned
C5_Witness ==
    /\ pc = "done" /\ result = TeeTimesUrl /\ gotos = <<TeeTimesUrl>>
    /\ Len(LinkEls) = 2 /\ FirstMatch(LinkEls) = 1
    /\ RegexTest(LinkEls[2].textContent) /\ LinkEls[2].href = BookUrl

\* C6: when no href was found but some link or button matches, exactly one
\* element is clicked, the first matching one in document order; the
\* navigation is waited for after the click; and a URL is returned only after
\* that navigation completed, and it is the URL the page has after the click.
C6_ClickFallback ==
    /\ Len(clicked) <= 1 /\ navWaits <= Len(clicked)
    /\ clicked # <<>> =>
          /\ clicked[1] = FirstMatch(AllEls)
          /\ ~Truthy(teeTimesHref) /\ gotos = <<>>
    /\ (pc \in AfterBranch /\ ~Truthy(teeTimesHref)) =>
          /\ Len(clicked) = 1
          /\ pc # "waitNav" =>
                /\ navWaits = 1
                /\ url = IF pc = "report" /\ dateSet /\ listenerNavigates
                         THEN DateUrl ELSE ClickDest(AllEls[clicked[1]])
    /\ (/\ pc = "done" /\ waitLog # <<>> /\ failed = {}
        /\ ~Truthy(teeTimesHref) /\ FirstMatch(AllEls) # 0) =>
          /\ Len(clicked) = 1 /\ navWaits = 1
          /\ result = IF dateSet /\ listenerNavigates THEN DateUrl
                      ELSE ClickDest(AllEls[clicked[1]])
    /\ (pc = "done" /\ clicked # <<>> /\ "waitForNavigation" \in failed) =>
          IsErrorResult(result)

\* scenario B with a second matching element after the clicked one
C6_Witness ==
    /\ pc = "done" /\ result = ScriptUrl /\ clicked = <<1>> /\ navWaits = 1
    /\ Len(AllEls) = 2 /\ AllEls[1].tag = "button"
    /\ RegexTest(AllEls[2].textContent)

\* C7: if no link or button has matching text there is no click, no
\* navigation wait and no date priming, and (when no primitive rejects) the
\* result is exactly the not-found string; and that string is returned only
\* when no element matches.
C7_NotFound ==
    /\ FirstMatch(AllEls) = 0 =>
          /\ clicked = <<>> /\ navWaits = 0 /\ gotos = <<>> /\ dateLog = <<>>
          /\ pc \notin AfterBranch
    /\ (pc = "done" /\ waitLog # <<>> /\ failed = {} /\ FirstMatch(AllEls) = 0)
          => result = NotFoundMsg
    /\ result = NotFoundMsg => FirstMatch(AllEls) = 0 /\ clicked = <<>>

C7_Witness ==
    /\ pc = "done" /\ result = NotFoundMsg /\ Len(AllEls) = 3 /\ Truthy(date)
    /\ page = "closed"

Strategies == DOMAIN dateSelectors
\* the date stage ran to its end
DateStageOver == dateLog # <<>> /\ pc \in {"settle", "report", "finally", "done"}
\* every wait that timed out did so because the selector resolves to nothing,
\* and no $eval rejected
DatePageDecides ==
    \A i \in DOMAIN dateLog :
        /\ dateLog[i][2] # "error"
        /\ dateLog[i][2] = "timeout" => datePage[dateLog[i][1]] = "absent"
LastTried == dateLog[Len(dateLog)]

\* C8 as stated: if strategy k is the first one present on the page, the date
\* is set through k and no strategy after k is tried (here even granting
\* that no wait on a present element times out and no $eval rejects).
C8_Original ==
    (/\ DateStageOver /\ DatePageDecides
     /\ \E k \in Strategies : datePage[k] # "absent")
    => LET k == CHOOSE j \in Strategies :
                   /\ datePage[j] # "absent"
                   /\ \A m \in 1..(j - 1) : datePage[m] = "absent"
       IN  LastTried = <<k, "set">>

\* C8 amended: strategies are tried in priority order; the first one that
\* resolves to an input element and is set without error is the one the date
\* is set through, whatever later strategies would resolve to, and none after
\* it is tried; a strategy that resolves to a non-input element is skipped
\* and the next one is tried.
C8_FirstInputWins ==
    /\ \A i \in DOMAIN dateLog : dateLog[i][1] = i
    /\ \A i \in DOMAIN dateLog :
          dateLog[i][2] = "set" => i = Len(dateLog) /\ datePage[i] = "input"
    /\ \A i \in DOMAIN dateLog :
          dateLog[i][2] = "notInput" => datePage[i] = "other"
    /\ dateSet <=> (dateLog # <<>> /\ LastTried[2] = "set")
    /\ (DateStageOver /\ ~dateSet) => Len(dateLog) = Len(dateSelectors)
    /\ (DateStageOver /\ DatePageDecides) =>
          IF \E k \in Strategies : datePage[k] = "input"
          THEN LastTried = <<CHOOSE j \in Strategies :
                                /\ datePage[j] = "input"
                                /\ \A m \in 1..(j - 1) : datePage[m] # "input",
                             "set">>
          ELSE ~dateSet

\* a non-input date picker is skipped, the next strategy sets the date, the
\* one after it is present as well and is not tried
C8_Witness ==
    /\ pc = "done" /\ dateSet
    /\ datePage[4] = "other" /\ datePage[5] = "input" /\ datePage[6] = "input"
    /\ Len(dateLog) = 5 /\ dateLog[4] = <<4, "notInput">>
    /\ LastTried = <<5, "set">>

\* C9 as stated: with a date the invocation returns the same final URL as
\* without one (here granting that no primitive rejects).
C9_Original ==
    (pc = "done" /\ dateLog # <<>> /\ failed = {}) => result = NoDateUrl

\* C9 amended: date priming never turns the result into an error, and the
\* final URL is the one returned without a date unless a date was set and the
\* page's own change listener navigated in reaction to it.
C9_DateKeepsUrl ==
    /\ dateLog # <<>> => pc # "catch" /\ err = "" /\ failed \subseteq {"close"}
    /\ (pc = "done" /\ failed = {} /\ ~Truthy(date) /\ NoDateUrl # Null) =>
          result = NoDateUrl
    /\ (pc = "done" /\ failed = {} /\ dateLog # <<>>) =>
          result = IF dateSet /\ listenerNavigates THEN DateUrl ELSE NoDateUrl

\* every strategy failed (one of them on a non-input element) and the URL
\* reached by the navigation is returned
C9_Witness ==
    /\ pc = "done" /\ Len(dateLog) = Len(dateSelectors) /\ ~dateSet
    /\ datePage[4] = "other" /\ datePage[1] = "input"
    /\ result = TeeTimesUrl

\* C10 as stated, for the navigation wait: its timeout does not by itself end
\* the invocation with an error result.
C10_Original ==
    (pc = "done" /\ failed = {"waitForNavigation"}) => ~IsErrorResult(result)

\* C10 amended: a timeout of a category wait or of a date-strategy wait is
\* "not found for this stage" and never reaches the catch block; a timeout of
\* the navigation wait after a click ends the invocation with the
\* NavigationError string, which is returned, not thrown.
C10_TimeoutsByStage ==
    /\ pc = "catch" =>
          /\ failed # {} /\ failed \subseteq CaughtPrimitives
          /\ dateLog = <<>>
    /\ (pc = "done" /\ failed = {} /\ browserPresent) => ~IsErrorResult(result)
    /\ (pc = "done" /\ "waitForNavigation" \in failed) =>
          /\ thrown = ""
          /\ result = IF "close" \in failed THEN UnexpectedError(PageError)
                      ELSE NavigationError(TimeoutError)

\* both kinds of tolerated timeout happen and a URL is still returned
C10_Witness ==
    /\ pc = "done" /\ failed = {}
    /\ waitLog = <<<<"a", "timeout">>, <<"button", "ok">>>>
    /\ dateLog # <<>> /\ dateLog[1] = <<1, "timeout">> /\ datePage[1] = "input"
    /\ result = InnerUrl

\* C3 as stated: during one browse call at most one browser is open at any
\* time and none is left open when browse returns, also when a URL fails
\* (here granting that nothing but a navigation rejects).
C3_Original ==
    failed \subseteq {"goto"} =>
        /\ openBrowsers <= 1
        /\ pc = "done" => openBrowsers = 0

\* C4 as stated: no exception ever escapes a tool's execute function.
C4_Original == thrown = ""

BrowserTools == {"browse", "findGolfCourseWebsite", "findTeeTimes"}

\* C4 amended: the only exception that escapes a tool's execute function is
\* the one for a missing agent context, thrown before any work is done; a
\* missing browser instance and every failure the tool observes afterwards
\* are returned as a string result.
C4_OnlyMissingAgentEscapes ==
    /\ thrown # "" =>
          /\ ~agentPresent /\ pc = "done" /\ result = Null
          /\ thrown \in {NoAgentError, NoAgentFound}
          /\ page = "null" /\ openBrowsers = 0 /\ calls = <<>> /\ failed = {}
    /\ (pc = "done" /\ ~agentPresent) => thrown # ""
    /\ (pc = "done" /\ agentPresent) => thrown = "" /\ result # Null
    /\ (pc = "done" /\ agentPresent /\ ~browserPresent /\ tool \in BrowserTools)
          => result \in {UnexpectedError(NoBrowserError),
                         ToolBrowseError(MyBrowserError),
                         GolfError(MyBrowserError)}
    /\ (pc = "done" /\ tool = "findTeeTimes" /\ failed # {})
          => IsErrorResult(result)
    /\ (pc = "done" /\ failed \cap {"schedule threw", "getSchedules",
                                    "cancelSchedule"} # {})
          => result \in {"Error scheduling task: " \o SchedulerError,
                         "Error listing scheduled tasks: " \o SchedulerError,
                         "Error canceling task " \o TaskId \o ": "
                             \o SchedulerError}

\* a close that rejects in the finally block is still returned as a string
C4_Witness ==
    /\ pc = "done" /\ tool = "findTeeTimes" /\ "close" \in failed
    /\ result = UnexpectedError(PageError) /\ thrown = ""

\* the intents of the last message before and after the pipeline
IntentsIn == messages[Len(messages)].parts
IntentsOut == processed[Len(processed)].parts
InvocationsOf(i) == {j \in DOMAIN invocations : invocations[j][1] = i}

\* C2: for every confirm-required intent without a result: Denied, the
\* execution function is never invoked; Approved, it is invoked exactly once
\* with the intent's arguments (and its value is attached); Pending, it is
\* not invoked and the intent's result slot stays empty.
C2_ConfirmRequiredByState ==
    /\ Len(messages) = Len(processed)
    /\ \A i \in DOMAIN IntentsIn :
          LET intent == IntentsIn[i]
              n == Cardinality(InvocationsOf(i))
              over == pidx > i
          IN  (~HasExecute(intent.toolName) /\ intent.result = Null) =>
                /\ intent.state = "Denied" =>
                      /\ n = 0
                      /\ over => IntentsOut[i].result = DeniedResult
                /\ intent.state = "Approved" =>
                      /\ n = IF over THEN 1 ELSE 0
                      /\ \A j \in InvocationsOf(i) :
                            invocations[j] = <<i, intent.toolName, intent.args>>
                      /\ over => IntentsOut[i].result =
                                    "The weather in " \o intent.args \o " is sunny"
                /\ intent.state = "Pending" =>
                      /\ n = 0
                      /\ IntentsOut[i] = intent
    /\ \A j \in DOMAIN invocations :
          /\ invocations[j][1] \in DOMAIN IntentsIn
          /\ IntentsIn[invocations[j][1]].state = "Approved"

\* an approved and a denied call in one message, both reconciled
C2_Witness ==
    /\ pc = "reconciled" /\ Len(IntentsIn) = 2
    /\ IntentsIn[1].state = "Approved" /\ IntentsIn[1].args = "Oslo"
    /\ IntentsIn[2].state = "Denied"
    /\ invocations = <<<<1, "getWeatherInformation", "Oslo">>>>

\* C11 as stated: any error raised in steps 2-5 that is not handled as a
\* "not found" condition yields the NavigationError result carrying that
\* error's detail.
C11_Original ==
    (pc = "done" /\ tool = "findTeeTimes" /\ failed \cap CaughtPrimitives # {})
    => result = NavigationError(err)

\* C11 amended: such an error never leaves execute as an exception and never
\* yields a URL or a not-found result; the result is the NavigationError
\* string carrying the error's detail, unless page.close() rejects as well
\* in the finally block, and then it is the "Unexpected error" string
\* carrying the detail of the close failure.
C11_ErrorsBecomeStrings ==
    /\ pc = "catch" => err \in RejectErrors /\ failed \cap CaughtPrimitives # {}
    /\ (pc = "finally" /\ failed \cap CaughtPrimitives # {}) =>
          result = NavigationError(err)
    /\ (pc = "done" /\ tool = "findTeeTimes"
        /\ failed \cap CaughtPrimitives # {}) =>
          /\ thrown = "" /\ err \in RejectErrors
          /\ result = IF "close" \in failed THEN UnexpectedError(PageError)
                      ELSE NavigationError(err)

\* the matcher's page.evaluate rejects and the page is closed afterwards
C11_Witness ==
    /\ pc = "done" /\ failed = {"evaluate"} /\ scanLog = <<>>
    /\ result = NavigationError(PageError) /\ page = "closed"

\* C12: if site resolution fails (the search yields no content, the fetch
\* fails, or the html holds no result link) findTeeTimes returns the
\* no-content reason for empty content and the no-site reason otherwise,
\* throws nothing, and never opens a page.
C12_SiteResolutionFails ==
    (tool = "findTeeTimes" /\ agentPresent /\ browserPresent
     /\ search \in {"empty", "fail", "nolink"})
    => /\ page = "null" /\ closeCalls = 0 /\ ~usedAfterClose
       /\ pc \in {"start", "search", "done"}
       /\ thrown = ""
       /\ pc = "done" => result = IF search = "empty" THEN NoContentMsg
                                  ELSE NoSiteMsg

\* the search fetch failed: browse's error string holds no result link
C12_Witness ==
    /\ tool = "findTeeTimes" /\ pc = "done" /\ search = "fail"
    /\ result = NoSiteMsg /\ page = "null"

\* what browse can record for one URL
OutcomesOf(u) ==
    {PageHtml(u), PageLinks(u)} \cup {BrowsingError(u, e) : e \in RejectErrors}

\* C13 as stated: browse returns exactly one result per input URL, in input
\* order, result i being the outcome of URL i.
C13_Original ==
    (tool = "browse" /\ pc = "done" /\ result = ResponsesValue)
    => /\ Len(responses) = Len(urls)
       /\ \A i \in DOMAIN urls : responses[i] \in OutcomesOf(urls[i])

SuccessResult == "Task scheduled for type \"" \o when.type \o "\" : " \o when.value

\* C16 as stated: the trigger is routed to the scheduler exactly once for
\* the kinds scheduled, delayed and cron, with that kind's value, and never
\* for no-schedule; success is reported only if scheduling succeeded, and
\* the failure is reported whenever the scheduler fails.
C16_Original ==
    (tool = "scheduleTask" /\ pc = "done" /\ agentPresent)
    => /\ calls = IF when.type = "no-schedule" THEN <<>>
                  ELSE <<<<"schedule", when.value, "executeTask", Description>>>>
       /\ result = SuccessResult =>
             /\ tasks # <<>> /\ tasks[Len(tasks)] = when.value
             /\ failed = {}
       /\ failed # {} => result = "Error scheduling task: " \o SchedulerError

\* C19: the categories are waited for and scanned in the order links, then
\* buttons; once the links yield an href the buttons are neither waited for
\* nor scanned; the link nested in a matching button is used only when the
\* links yielded no href.
C19_LinksBeforeButtons ==
    /\ Len(waitLog) <= Len(linkSelectors)
    /\ \A i \in DOMAIN waitLog : waitLog[i][1] = linkSelectors[i]
    /\ Len(scanLog) <= Len(waitLog)
    /\ \A i \in DOMAIN scanLog :
          \E j \in DOMAIN waitLog : waitLog[j] = <<scanLog[i], "ok">>
    /\ scanLog \in {<<>>, <<"a">>, <<"button">>, <<"a", "button">>}
    /\ ("a" \in {scanLog[i] : i \in DOMAIN scanLog}
        /\ Truthy(ScanHref("a", dom))) =>
          /\ waitLog = <<<<"a", "ok">>>> /\ scanLog = <<"a">>
          /\ teeTimesHref = ScanHref("a", dom)
    /\ (scanLog # <<>> /\ scanLog[Len(scanLog)] = "button") =>
          /\ teeTimesHref = ScanHref("button", dom)
          /\ \/ waitLog[1] = <<"a", "timeout">>
             \/ ~Truthy(ScanHref("a", dom))

\* a matching link without an href, then a button whose nested link is used
C19_Witness ==
    /\ pc = "done" /\ scanLog = <<"a", "button">>
    /\ FirstMatch(LinkEls) # 0 /\ FirstLinkHref = ""
    /\ teeTimesHref = InnerUrl /\ result = InnerUrl /\ gotos = <<InnerUrl>>

\* the stage of the forward pass a position of execute belongs to
Stage(at) ==
    CASE at = "start" -> 0
      [] at = "search" -> 1
      [] at \in {"newPage", "goto"} -> 2
      [] at \in {"wait", "scan"} -> 3
      [] at \in {"branch", "waitNav"} -> 4
      [] at \in {"date", "dateWait", "dateTag", "dateSet", "settle"} -> 5
      [] at = "report" -> 6
      [] OTHER -> 7

\* C20: findTeeTimes is a single forward pass: resolve site, open page,
\* locate entry point, navigate or click, date priming, report; no step
\* leads back to an earlier stage, so each stage is entered at most once,
\* and direct navigation and the click fallback never both happen.
C20_SingleForwardPass ==
    [][tool = "findTeeTimes" =>
          /\ Stage(pc') >= Stage(pc)
          /\ Len(gotos') + Len(clicked') <= 1
          /\ (pc # "branch" /\ pc' # pc) =>
                gotos' = gotos /\ clicked' = clicked]_vars

\* every stage was passed: the click fallback, then every date strategy
C20_Witness ==
    /\ pc = "done" /\ clicked # <<>> /\ gotos = <<>>
    /\ Len(dateLog) = Len(dateSelectors) /\ result = ScriptUrl

\* ============================================= findTeeTimes, invoked again
\* tools.ts 166: execute is called again with the same arguments on the same
\* site; its locals are fresh, what the agent holds stays as it was left
TeeAgain ==
    /\ pc = "done" /\ tool = "findTeeTimes" /\ run < MaxRuns
    /\ run' = run + 1
    /\ firstRun' = IF run = 1
                   THEN [result |-> result, thrown |-> thrown,
                         waitLog |-> waitLog, failed |-> failed, err |-> err]
                   ELSE firstRun
    /\ pc' = "start"
    /\ page' = "null" /\ url' = "about:blank"
    /\ teeTimesHref' = Null /\ selIdx' = 1 /\ dateIdx' = 1 /\ dateSet' = FALSE
    /\ err' = "" /\ result' = Null /\ thrown' = ""
    /\ closeCalls' = 0 /\ usedAfterClose' = FALSE /\ clicked' = <<>>
    /\ navWaits' = 0 /\ gotos' = <<>> /\ waitLog' = <<>> /\ scanLog' = <<>>
    /\ dateLog' = <<>> /\ failed' = {}
    /\ UNCHANGED <<envVars, chatVars, fetchVars, otherVars>>

\* a button without a link before a matching link
ButtonThenLinkDom == <<AButton("Reserve"), ALink("Book Tee Times", TeeTimesUrl)>>
\* a matching link without an href before a button that wraps a link
HreflessLinkDom ==
    <<ALink("Book Tee Times", ""),
      [tag |-> "button", text |-> "Reserve", href |-> "",
       inner |-> [present |-> TRUE, text |-> "here", href |-> InnerUrl]]>>
\* the landing pages invoked twice: every page of at most one node, and the
\* fixtures
TwiceDoms ==
    SeqsUpTo(Nodes, 1)
    \cup {ScenarioADom, ScenarioBDom, ButtonThenLinkDom, HreflessLinkDom}

\* the same course on the same site, no date
InitTwice ==
    /\ tool = "findTeeTimes"
    /\ agentPresent = TRUE /\ browserPresent = TRUE
    /\ \/ /\ search = "link" /\ dom \in TwiceDoms
          /\ scriptDest \in {"", ScriptUrl} /\ siteRedirects \in BOOLEAN
          /\ date = NoDate /\ datePage = NoDateInputs
          /\ listenerNavigates = FALSE
       \/ search \in {"nolink", "empty", "fail"} /\ NoSite
    /\ NoBrowseArgs /\ NoSchedule
    /\ NoTranscript /\ NoEarlierRun /\ NoChat /\ NoFetch
    /\ InitProc
    /\ pc = "start"

NextTwice ==
    \/ TeeStart \/ TeeSearch \/ TeeNewPage \/ TeeGoto \/ TeeWait \/ TeeScan
    \/ TeeClick \/ TeeWaitNav \/ TeeGotoHref \/ TeeDate \/ TeeReport
    \/ TeeCatch \/ TeeFinally \/ TeeAgain

SpecTwice == InitTwice /\ [][NextTwice]_vars

\* the site answered every wait it could answer and no primitive rejected
CleanLog(log, rejected) ==
    /\ rejected = {}
    /\ \A i \in DOMAIN log :
          log[i][2] = "timeout" => QuerySelectorAll({log[i][1]}, dom) = <<>>

\* C18: a second invocation with the same course name and no date on the
\* same site returns what the first one returned, whenever the site behaves
\* the second time as it did the first time (the same waits time out and the
\* same primitive rejects with the same error), and in particular whenever
\* it answers both times without fault; nothing the first invocation leaves
\* behind changes the second one's result.
C18_SameResultTwice ==
    (/\ pc = "done" /\ run = 2
     /\ \/ /\ firstRun.waitLog = waitLog /\ firstRun.failed = failed
           /\ firstRun.err = err
        \/ /\ CleanLog(firstRun.waitLog, firstRun.failed)
           /\ CleanLog(waitLog, failed))
    => result = firstRun.result /\ thrown = firstRun.thrown

\* both invocations clicked the button and returned the URL reached
C18_Witness ==
    /\ pc = "done" /\ run = 2 /\ firstRun.result = ScriptUrl
    /\ result = ScriptUrl /\ clicked = <<1>> /\ CleanLog(waitLog, failed)
    /\ page = "closed"

\* ==================================================== the chat-turn handler
\* the tool-call intents the messages delivered to the agent carry
ChatIntents ==
    {IntentOf("getWeatherInformation", "Paris", "Approved"),
     IntentOf("getWeatherInformation", "Oslo", "Denied"),
     IntentOf("getWeatherInformation", "Paris", "Pending")}
IncomingMessages ==
    {UserMessage} \cup {AssistantMessage(<<i>>) : i \in ChatIntents}

ReconcileError == "Error: reconciliation failed"
\* server.ts 69-74
ErrorMessage(error) ==
    [role |-> "assistant", parts |-> <<>>,
     content |-> "I encountered an error while trying to perform a task: "
                 \o error
                 \o ". Let's continue our conversation. How can I assist you further?"]
\* server.ts 96-101
TaskMessage(description) ==
    [role |-> "user", parts |-> <<>>,
     content |-> "Running scheduled task: " \o description]

\* processToolCalls on a whole transcript: the intents of the last message
\* are reconciled, every other message is returned as it is
ProcessToolCalls(msgs) ==
    IF msgs = <<>> THEN msgs
    ELSE [msgs EXCEPT ![Len(msgs)].parts =
              [k \in DOMAIN @ |-> Reconciled(@[k])]]

\* a message arrives and the agent's onChatMessage is called (server.ts 40)
Incoming ==
    /\ pc \in {"idle", "streamed"} /\ Len(messages) < MaxMessages
    /\ \E m \in IncomingMessages : messages' = Append(messages, m)
    /\ turnStart' = messages'
    /\ failed' = {} /\ err' = ""
    /\ pc' = "turn"
    /\ UNCHANGED <<envVars, runVars, fetchVars, browseVars, schedVars,
                   processed, pidx, invocations, modelRun, page, url,
                   teeTimesHref, selIdx, dateIdx, dateSet, result, thrown,
                   closeCalls, usedAfterClose, clicked, navWaits, gotos,
                   waitLog, scanLog, dateLog>>

\* server.ts 44-50: the tool calls are reconciled, or the pipeline throws
ChatReconcile ==
    /\ pc = "turn"
    /\ \/ /\ processed' = ProcessToolCalls(messages)
          /\ pc' = "stream"
          /\ UNCHANGED <<err, failed>>
       \/ /\ err' = ReconcileError
          /\ failed' = {"processToolCalls"}
          /\ pc' = "chatCatch"
          /\ UNCHANGED processed
    /\ UNCHANGED <<siteVars, browseVars, schedVars, messages, pidx,
                   invocations, page, url, teeTimesHref, selIdx, dateIdx,
                   dateSet, result, thrown, closeCalls, usedAfterClose,
                   clicked, navWaits, gotos, waitLog, scanLog, dateLog>>

\* server.ts 52-64: the model is run on the processed messages
ChatStream ==
    /\ pc = "stream"
    /\ modelRun' = processed
    /\ pc' = "streamed"
    /\ UNCHANGED <<envVars, runVars, fetchVars, turnStart, otherVars,
                   histVars, page, url, teeTimesHref, selIdx, dateIdx,
                   dateSet, err, result, thrown>>

\* ChatCatch without the catch block of 65-86: the turn is aborted
ChatCatchAborts ==
    /\ pc = "chatCatch"
    /\ thrown' = err
    /\ pc' = "streamed"
    /\ UNCHANGED <<siteVars, otherVars, histVars, page, url, teeTimesHref,
                   selIdx, dateIdx, dateSet, err, result>>

\* server.ts 65-86: the error message is pushed onto this.messages and the
\* model is run on this.messages
ChatCatch ==
    /\ pc = "chatCatch"
    /\ messages' = Append(messages, ErrorMessage(err))
    /\ modelRun' = messages'
    /\ pc' = "streamed"
    /\ UNCHANGED <<envVars, runVars, fetchVars, turnStart, browseVars,
                   schedVars, processed, pidx, invocations, histVars, page,
                   url, teeTimesHref, selIdx, dateIdx, dateSet, err, result,
                   thrown>>

\* executeTask saving the task's message alone
ExecuteTaskDropsTranscript ==
    /\ pc \in {"idle", "streamed"} /\ Len(messages) < MaxMessages
    /\ messages' = <<TaskMessage(Description)>>
    /\ pc' = "idle"
    /\ UNCHANGED <<siteVars, browseVars, schedVars, processed, pidx,
                   invocations, histVars, page, url, teeTimesHref, selIdx,
                   dateIdx, dateSet, err, result, thrown>>

\* server.ts 93-103: a scheduled task runs between chat turns
ExecuteTask ==
    /\ pc \in {"idle", "streamed"} /\ Len(messages) < MaxMessages
    /\ messages' = Append(messages, TaskMessage(Description))
    /\ pc' = "idle"
    /\ UNCHANGED <<siteVars, browseVars, schedVars, processed, pidx,
                   invocations, histVars, page, url, teeTimesHref, selIdx,
                   dateIdx, dateSet, err, result, thrown>>

InitAgent ==
    /\ tool = "none"
    /\ agentPresent = TRUE /\ browserPresent = TRUE /\ search = "link"
    /\ NoSite /\ NoBrowseArgs /\ NoSchedule
    /\ NoTranscript /\ NoEarlierRun /\ NoChat /\ NoFetch
    /\ InitProc
    /\ pc = "idle"

NextAgent ==
    Incoming \/ ChatReconcile \/ ChatStream \/ ChatCatch \/ ExecuteTask

SpecAgent == InitAgent /\ [][NextAgent]_vars

\* the pipeline's output differs from the transcript only by results filled
\* into empty slots of the last message
FilledInPlace(before, after) ==
    /\ Len(after) = Len(before)
    /\ \A i \in 1..(Len(before) - 1) : after[i] = before[i]
    /\ before # <<>> =>
          LET b == before[Len(before)]
              a == after[Len(after)]
          IN  /\ a.role = b.role /\ Len(a.parts) = Len(b.parts)
              /\ \A k \in DOMAIN b.parts :
                    /\ a.parts[k].toolName = b.parts[k].toolName
                    /\ a.parts[k].args = b.parts[k].args
                    /\ b.parts[k].result # Null => a.parts[k] = b.parts[k]

\* C14: the transcript is append-only: every step of a chat turn (the
\* reconciliation succeeding or throwing) and every scheduled-task
\* execution leaves each existing message where it was and as it was; the
\* pipeline's output only has results filled in, in place; the error path
\* and the scheduling path only append at the end.
C14_AppendOnly ==
    [][/\ Len(messages') >= Len(messages)
       /\ SubSeq(messages', 1, Len(messages)) = messages
       /\ pc' = "stream" => FilledInPlace(messages', processed')]_vars

\* a turn that failed and a scheduled task, both appended after what was there
C14_Witness ==
    /\ Len(messages) = 4 /\ messages[1] = UserMessage
    /\ messages[2] = ErrorMessage(ReconcileError)
    /\ messages[3] = TaskMessage(Description)
    /\ messages[4].parts # <<>> /\ pc = "stream"
    /\ processed[4].parts[1].result = DeniedResult

\* C15: if the pipeline throws while reconciling, the handler catches it,
\* appends exactly one synthetic assistant message to the transcript and
\* runs the model on the resulting transcript; nothing propagates out of the
\* handler.
C15_PipelineErrorCaught ==
    /\ thrown = ""
    /\ pc = "chatCatch" => messages = turnStart /\ err = ReconcileError
    /\ (pc = "streamed" /\ failed = {"processToolCalls"}) =>
          /\ messages = Append(turnStart, ErrorMessage(err))
          /\ messages[Len(messages)].role = "assistant"
          /\ modelRun = messages
    /\ (pc = "streamed" /\ failed = {}) =>
          messages = turnStart /\ modelRun = processed

\* the pipeline threw on a message carrying an approved call
C15_Witness ==
    /\ pc = "streamed" /\ failed = {"processToolCalls"}
    /\ Len(turnStart) = 2 /\ turnStart[2].parts # <<>>
    /\ modelRun = Append(turnStart, ErrorMessage(ReconcileError))

\* ======================================================== the worker's fetch
\* server.ts 145-151
allowedOrigins ==
    {"http://localhost:5173", "http://localhost:8788", "https://mulls.io",
     "https://agents.mulls.io", "https://dash.mulls.io"}

\* the Origin header of a request; Null when the header is absent
Origins ==
    allowedOrigins
    \cup {Null, "", "https://evil.example", "https://mulls.io.evil.example"}
Methods == {"OPTIONS", "GET", "POST"}
Paths == {"/check-open-ai-key", "/agents/dash-agent/room", "/favicon.ico"}
Requests == [method : Methods, path : Paths, origin : Origins]

CorsNames ==
    {"Access-Control-Allow-Origin", "Access-Control-Allow-Credentials",
     "Access-Control-Allow-Headers", "Access-Control-Allow-Methods"}
\* server.ts 156-159 and 175-178: the four headers, as <<name, value>>
CorsHeaders(allowOrigin) ==
    {<<"Access-Control-Allow-Origin", allowOrigin>>,
     <<"Access-Control-Allow-Credentials", "true">>,
     <<"Access-Control-Allow-Headers", "Content-Type, Authorization">>,
     <<"Access-Control-Allow-Methods", "GET, POST, OPTIONS">>}

JsonHeaders == {<<"Content-Type", "application/json">>}
\* what routeAgentRequest answers for a request to an agent
RoutedResponse ==
    [status |-> 200, headers |-> {<<"Content-Type", "text/event-stream">>}]

\* withCORS reflecting whatever origin the request names
withCORSAnyOrigin(resp, origin) ==
    IF Truthy(origin)
    THEN [resp EXCEPT !.headers = {h \in @ : h[1] \notin CorsNames}
                                  \cup CorsHeaders(origin)]
    ELSE resp

\* server.ts 153-163; headers.set replaces a header of the same name
withCORS(resp, origin) ==
    IF Truthy(origin) /\ origin \in allowedOrigins
    THEN [resp EXCEPT !.headers = {h \in @ : h[1] \notin CorsNames}
                                  \cup CorsHeaders(origin)]
    ELSE resp

FetchUnchanged ==
    UNCHANGED <<envVars, runVars, chatVars, request, otherVars, histVars,
                page, url, teeTimesHref, selIdx, dateIdx, dateSet, err,
                result, thrown>>

\* server.ts 171-181: a preflight request
FetchPreflight ==
    /\ pc = "fetch" /\ request.method = "OPTIONS"
    /\ LET origin == request.origin IN
       response' =
           [status |-> 204,
            headers |-> CorsHeaders(IF Truthy(origin) /\ origin \in allowedOrigins
                                    THEN origin ELSE "")]
    /\ pc' = "done"
    /\ FetchUnchanged

\* server.ts 184-187: the health check
FetchCheckKey ==
    /\ pc = "fetch" /\ request.method # "OPTIONS"
    /\ request.path = "/check-open-ai-key"
    /\ response' = withCORS([status |-> 200, headers |-> JsonHeaders],
                            request.origin)
    /\ pc' = "done"
    /\ FetchUnchanged

\* server.ts 188-214: the request is routed to an agent; no agent answers
\* (404); or the routing throws (500)
FetchRoute ==
    /\ pc = "fetch" /\ request.method # "OPTIONS"
    /\ request.path # "/check-open-ai-key"
    /\ \/ /\ request.path = "/agents/dash-agent/room"
          /\ response' = withCORS(RoutedResponse, request.origin)
       \/ /\ request.path # "/agents/dash-agent/room"
          /\ response' = withCORS([status |-> 404, headers |-> JsonHeaders],
                                  request.origin)
       \/ response' = withCORS([status |-> 500, headers |-> JsonHeaders],
                               request.origin)
    /\ pc' = "done"
    /\ FetchUnchanged

InitFetch ==
    /\ tool = "none"
    /\ agentPresent = TRUE /\ browserPresent = TRUE /\ search = "link"
    /\ NoSite /\ NoBrowseArgs /\ NoSchedule
    /\ NoTranscript /\ NoEarlierRun /\ NoChat
    /\ request \in Requests /\ response = NoResponse
    /\ InitProc
    /\ pc = "fetch"

NextFetch == FetchPreflight \/ FetchCheckKey \/ FetchRoute

SpecFetch == InitFetch /\ [][NextFetch]_vars

OriginAllowed == Truthy(request.origin) /\ request.origin \in allowedOrigins
AccessControl == {h \in response.headers : h[1] \in CorsNames}

\* C17 as stated: a response to an origin outside the allow-list, or to no
\* origin, names no allowed origin, and a preflight gets status 204 with the
\* Access-Control-* headers a normal response for that origin gets.
C17_Original ==
    pc = "done" =>
        /\ ~OriginAllowed =>
              \A h \in response.headers :
                  h[1] = "Access-Control-Allow-Origin" => h[2] = ""
        /\ request.method = "OPTIONS" =>
              /\ response.status = 204
              /\ AccessControl = IF OriginAllowed
                                 THEN CorsHeaders(request.origin) ELSE {}

\* C17 amended: a response other than a preflight carries the four
\* Access-Control-* headers exactly when the request's Origin is in the
\* allow-list, naming that origin; a preflight always gets status 204 and
\* all four headers, with Access-Control-Allow-Origin naming the origin when
\* it is in the allow-list and empty otherwise; no response names an origin
\* outside the allow-list.
C17_CorsByAllowList ==
    pc = "done" =>
        /\ request.method = "OPTIONS" =>
              /\ response.status = 204
              /\ response.headers =
                    CorsHeaders(IF OriginAllowed THEN request.origin ELSE "")
        /\ request.method # "OPTIONS" =>
              /\ response.status \in {200, 404, 500}
              /\ AccessControl = IF OriginAllowed
                                 THEN CorsHeaders(request.origin) ELSE {}
        /\ \A h \in response.headers :
              h[1] = "Access-Control-Allow-Origin" =>
                  \/ h[2] = ""
                  \/ h[2] = request.origin /\ h[2] \in allowedOrigins

\* a preflight from an origin outside the allow-list
C17_Witness ==
    /\ pc = "done" /\ request.method = "OPTIONS"
    /\ request.origin = "https://mulls.io.evil.example"
    /\ response.status = 204
    /\ <<"Access-Control-Allow-Origin", "">> \in response.headers
    /\ <<"Access-Control-Allow-Credentials", "true">> \in response.headers

\* what the first element of a category whose text matches decides
FirstMatchDecision(sel) ==
    LET els == QuerySelectorAll({sel}, dom)
        Matching == {i \in DOMAIN els : RegexTest(els[i].textContent)}
    IN  IF Matching = {} THEN Null
        ELSE LET first == CHOOSE i \in Matching : \A j \in Matching : i <= j
                 el == els[first]
             IN  IF sel = "a" THEN el.href
                 ELSE IF el.hasLink THEN el.linkHref
                 ELSE Null

\* C21: within one category scan the first element in document order whose
\* text matches decides alone: a link gives its href, a button its nested
\* link's href if it has one and no href otherwise; later matching elements
\* never change the result, even when the first has no usable href.
C21_FirstMatchWins ==
    \A k \in DOMAIN scanLog :
        IF k = Len(scanLog)
        THEN teeTimesHref = FirstMatchDecision(scanLog[k])
        ELSE ~Truthy(FirstMatchDecision(scanLog[k]))

\* the first matching link has no href, a later matching link has one: the
\* scan yields no href and the first link is clicked
C21_Witness ==
    /\ pc = "done" /\ scanLog = <<"a">> /\ Len(LinkEls) = 2
    /\ RegexTest(LinkEls[1].textContent) /\ LinkEls[1].href = ""
    /\ RegexTest(LinkEls[2].textContent) /\ LinkEls[2].href = TeeTimesUrl
    /\ teeTimesHref = "" /\ gotos = <<>> /\ clicked = <<1>>

\* ================== findGolfCourseWebsite, then findTeeTimes for the course
\* tools.ts 166: findTeeTimes is invoked for the course findGolfCourseWebsite
\* was just invoked for, against the same search results
ThenFindTeeTimes ==
    /\ pc = "done" /\ tool = "findGolfCourseWebsite" /\ run < MaxRuns
    /\ tool' = "findTeeTimes"
    /\ run' = run + 1
    /\ firstRun' = [result |-> result, thrown |-> thrown, waitLog |-> waitLog,
                    failed |-> failed, err |-> err]
    /\ pc' = "start"
    /\ result' = Null /\ thrown' = "" /\ failed' = {}
    /\ UNCHANGED <<agentPresent, browserPresent, search, date, dom, scriptDest,
                   siteRedirects, datePage, listenerNavigates, chatVars,
                   fetchVars, otherVars, teeVars>>

\* every agent environment and search outcome, one course, any site
InitResolve ==
    /\ tool = "findGolfCourseWebsite"
    /\ agentPresent \in BOOLEAN /\ browserPresent \in BOOLEAN
    /\ search \in {"link", "nolink", "empty", "fail"}
    /\ dom \in {ScenarioADom, ScenarioBDom}
    /\ scriptDest = ScriptUrl /\ siteRedirects \in BOOLEAN
    /\ date \in {NoDate, ADate} /\ datePage = NoDateInputs
    /\ listenerNavigates = FALSE
    /\ NoBrowseArgs /\ NoSchedule
    /\ NoTranscript /\ NoEarlierRun /\ NoChat /\ NoFetch
    /\ InitProc
    /\ pc = "start"

\* findTeeTimes is followed until the course's site has been opened
NextResolve ==
    \/ FindGolfCourseWebsite \/ ThenFindTeeTimes
    \/ TeeStart \/ TeeSearch \/ TeeNewPage \/ TeeGoto

SpecResolve == InitResolve /\ [][NextResolve]_vars

\* the two strings a tool returns when the search gives no site
NotFoundMsgs == {NoContentMsg, NoSiteMsg}

\* C22: with the agent and its browser in place, for every search outcome
\* (a result link, no result link, empty content, failed fetch) the site
\* findTeeTimes opens is the URL findGolfCourseWebsite returned, and
\* findTeeTimes stops with a not-found string exactly when
\* findGolfCourseWebsite returned that same string.
C22_SameSiteResolution ==
    (tool = "findTeeTimes" /\ run > 1 /\ agentPresent /\ browserPresent) =>
        /\ pc \in {"newPage", "goto", "wait", "catch"} =>
               firstRun.result = extractCourseUrl(SearchHtml(search))
        /\ pc = "wait" => url = Land(firstRun.result)
        /\ pc = "done" =>
               result \in NotFoundMsgs /\ result = firstRun.result
        /\ firstRun.result \in NotFoundMsgs =>
               pc \in {"start", "search", "done"}
        /\ firstRun.result \notin NotFoundMsgs => pc # "done"

\* findGolfCourseWebsite returned the course's URL and findTeeTimes has
\* opened it
C22_Witness ==
    /\ tool = "findTeeTimes" /\ run > 1 /\ pc = "wait"
    /\ firstRun.result = CourseUrl /\ url = CourseUrl

\* both tools stopped with the same not-found string
C22_WitnessNotFound ==
    /\ tool = "findTeeTimes" /\ run > 1 /\ pc = "done"
    /\ search = "fail" /\ firstRun.result = NoSiteMsg /\ result = NoSiteMsg

\* ===================================== findTeeTimes, every primitive returning
\* every environment, and the landing pages of at most one node and the
\* fixtures, with and without a date
InitTerminates ==
    /\ tool = "findTeeTimes"
    /\ \/ InitEnvironment
       \/ /\ agentPresent = TRUE /\ browserPresent = TRUE /\ search = "link"
          /\ dom \in TwiceDoms
          /\ scriptDest \in {"", ScriptUrl} /\ siteRedirects \in BOOLEAN
          /\ \/ date = NoDate /\ datePage = NoDateInputs
             \/ /\ date = ADate
                /\ datePage \in {NoDateInputs, PlainDatePage, ScenarioDPage}
          /\ listenerNavigates = FALSE
    /\ NoBrowseArgs /\ NoSchedule
    /\ NoTranscript /\ NoEarlierRun /\ NoChat /\ NoFetch
    /\ InitProc
    /\ pc = "start"

NextTerminates ==
    \/ TeeStart \/ TeeSearch \/ TeeNewPage \/ TeeGoto \/ TeeWait \/ TeeScan
    \/ TeeClick \/ TeeWaitNav \/ TeeGotoHref \/ TeeDate \/ TeeDateWait
    \/ TeeDateTag \/ TeeDateSet \/ TeeSettle \/ TeeReport \/ TeeCatch
    \/ TeeFinally

\* every awaited primitive settles (it resolves, rejects or times out), so
\* execute always takes its next step
SpecTerminates ==
    InitTerminates /\ [][NextTerminates]_vars /\ WF_vars(NextTerminates)

\* the loops of execute never run more often than their lists are long, and
\* the click fallback runs once
BoundedSteps ==
    /\ Len(waitLog) <= Len(linkSelectors) /\ Len(scanLog) <= Len(waitLog)
    /\ Len(clicked) <= 1 /\ navWaits <= Len(clicked)
    /\ Len(dateLog) <= Len(dateSelectors)

\* C23: when every page primitive returns or times out, every invocation of
\* findTeeTimes ends, and one that opens a page ends with a result string;
\* the category loop, the click fallback and the date-strategy loop run a
\* bounded number of steps.
C23_Terminates ==
    /\ <>(pc = "done" /\ (agentPresent => result # Null))
    /\ (pc = "newPage") ~> (pc = "done" /\ result # Null /\ thrown = "")
    /\ []BoundedSteps

\* the longest run: both categories timed out, the click navigated, every
\* date strategy was tried, and the invocation returned
C23_Witness ==
    /\ pc = "done" /\ result # Null /\ thrown = ""
    /\ Len(waitLog) = Len(linkSelectors) /\ scanLog = <<>>
    /\ Len(clicked) = 1 /\ navWaits = 1
    /\ Len(dateLog) = Len(dateSelectors)
====
